---- MODULE Spec2Model ----
(***************************************************************************)
(* A model of the YouTube downloader API: the two Flask applications       *)
(* src/app.py ("main") and src/backend/app.py ("backend"), their download  *)
(* request handlers, the per-download cleanup_later timer threads, the     *)
(* cleanup_old_files sweeper thread, and the get_formats listing.          *)
(*                                                                         *)
(* Time is discrete: Tick advances every clock by Quantum seconds.  Only   *)
(* blocking operations take time (time.sleep, the yt-dlp extract_info      *)
(* call, the streaming of a response); every other step of a thread is     *)
(* instantaneous and interleaves freely with the steps of other threads.   *)
(***************************************************************************)
EXTENDS Integers, Sequences, FiniteSets, TLC

\* ------------------------------------------------------------------ bounds
MaxReq == 2            \* number of requests served in one run
Quantum == 3600        \* seconds added to every clock by one Tick
MaxFree == 3           \* freely chosen entries of a raw format list
PadLen == 19           \* length of the block of distinct video formats

\* --------------------------------------------------------- program constants
MAX_FILE_SIZE == 100 * 1024 * 1024
CLEANUP_INTERVAL == 300
MAX_AGE == 3600
TIMER_DELAY == 60
LIMIT == 20
None == -1             \* Python's None where an integer may stand (a height)

MB(n) == n * 1024 * 1024

Requests == 1 .. MaxReq
Variants == {"main", "backend"}
Endpoints == {"video-info", "download", "formats"}

\* A URL is a sequence of pieces; `host in url` is a search for the piece.
\* The empty sequence is the empty or missing URL (both are falsy).
URLS == { <<>>, <<"example.com", "/v">>, <<"www.", "youtube.com", "/watch">>,
          <<"youtu.be", "/x">> }

\* the URLs of the download requests whose directories are followed
DownloadURLS == { <<"www.", "youtube.com", "/watch">> }

\* What extract_info can leave in the directory: the output "a", below or
\* above MAX_FILE_SIZE, and a by-product "b" of exactly MAX_FILE_SIZE.
FileSizes == [a |-> {MB(50), MB(150)}, b |-> {MAX_FILE_SIZE}]
FileNames == DOMAIN FileSizes
FileSets ==
    UNION { { {[name |-> n, size |-> f[n]] : n \in S} :
                f \in {g \in [S -> UNION {FileSizes[n] : n \in S}] :
                          \A n \in S : g[n] \in FileSizes[n]} } :
            S \in SUBSET FileNames }
VARIABLES
    variant,    \* which application is running
    req,        \* req[r]: the request's endpoint and url
    pc,         \* pc[r]: where request r's handler stands
    status,     \* status[r]: the HTTP status answered (0: none yet)
    called,     \* called[r]: extract_info was invoked for r
    outcome,    \* outcome[r]: how extract_info ended
    exists,     \* exists[d]: download directory d is on disk
    age,        \* age[d]: current time minus d's st_mtime
    files,      \* files[d]: the regular files in d
    chosen,     \* chosen[r]: the file picked as payload ({} none, else {f})
    started,    \* started[r]: cleanup_later threads started by r
    timer,      \* timer[r]: r's cleanup_later thread
    swPc,       \* the sweeper's position
    swSlept,    \* seconds the sweeper has slept
    swQueue,    \* entries of the glob still to visit, head first
    swSeen,     \* the age the sweeper's stat found for the entry it is to delete
    swOld,      \* directories older than MAX_AGE when the cycle's glob ran and
                \* not modified since; once the cycle has ended, those of them
                \* it left on disk
    swYoung,    \* the sweeper removed a directory it had found no older than MAX_AGE
    dd,         \* the last deletion attempted on an already removed directory
    raw,        \* info['formats'] as the collaborator returned it
    formats,    \* the body of the get_formats response
    fpc         \* get_formats: "input" or "done"

hvars == <<req, pc, status, called, outcome, chosen>>
dvars == <<exists, age, files>>
tvars == <<started, timer>>
svars == <<swPc, swSlept, swQueue, swSeen, swOld, swYoung>>
fvars == <<raw, formats, fpc>>
vars == <<variant, hvars, dvars, tvars, svars, dd, fvars>>

NoReq == [endpoint |-> "none", url |-> <<>>]
NoTimer == [st |-> "none", dir |-> 0, slept |-> 0]

\* ------------------------------------------------------------- pure helpers
Max(S) == CHOOSE x \in S : \A y \in S : y <= x

\* Python's `host in url`
Contains(url, host) == \E i \in 1 .. Len(url) : url[i] = host

\* app.py 90, 148: 'youtube.com' in url or 'youtu.be' in url
valid_url(url) == Contains(url, "youtube.com") \/ Contains(url, "youtu.be")

\* which handlers check the host: app.py get_video_info and download_video do,
\* app.py get_formats does not, and no handler of backend/app.py does
checks_host(v, ep) == v = "main" /\ ep \in {"video-info", "download"}

\* the payload among the listed files.  app.py 198-200: a stable sort by size,
\* descending, then the first entry, so one of the largest in os.listdir order.
\* backend/app.py 141: downloaded_files[0], whatever os.listdir puts first.
select_file(v, fs) ==
    IF v = "main"
    THEN {f \in fs : f.size = Max({g.size : g \in fs})}
    ELSE fs

\* app.py 207, backend/app.py 146
too_large(size) == size > MAX_FILE_SIZE

\* app.py 28, backend/app.py 25: current_time - st_mtime > 3600
is_old(a) == a > MAX_AGE

\* (mutant) shutil.rmtree(path), without ignore_errors: a missing path raises
rmtree_strict(there) == [raised |-> ~there, left |-> FALSE]

\* shutil.rmtree(path, ignore_errors=True): removes the tree, never raises
rmtree(there) == [raised |-> FALSE, left |-> FALSE]

\* Path.unlink(missing_ok=True): a missing path is ignored; a directory
\* cannot be unlinked (IsADirectoryError) and stays
unlink(there) == [raised |-> there, left |-> there]

\* (mutant) app.py's sweeper calling unlink, as backend/app.py's does
sweeper_delete_unlink(v, there) == unlink(there)

\* the sweeper's delete: app.py 29 rmtree, backend/app.py 26 unlink
sweeper_delete(v, there) == IF v = "main" THEN rmtree(there) ELSE unlink(there)

\* time.sleep(60) of cleanup_later has returned
timer_due(t) == t.st = "sleeping" /\ t.slept >= TIMER_DELAY

\* time.sleep(CLEANUP_INTERVAL) of cleanup_old_files has returned
sweeper_due == swPc = "sleeping" /\ swSlept >= CLEANUP_INTERVAL

Perms(S) == { q \in [1 .. Cardinality(S) -> S] :
                \A i, j \in 1 .. Cardinality(S) : q[i] = q[j] => i = j }

\* the directory d is removed, with all it holds
Removed(d) ==
    /\ exists' = [exists EXCEPT ![d] = FALSE]
    /\ age' = [age EXCEPT ![d] = 0]
    /\ files' = [files EXCEPT ![d] = {}]

\* a deletion attempted by `task` on d, logged when d was already gone:
\* whether it raised, and whether the task went on as after a deletion
NoDelete == [task |-> "none", dir |-> 0, raised |-> FALSE, continued |-> TRUE]
Logged(task, d, res, cont) ==
    IF exists[d] THEN dd
    ELSE [task |-> task, dir |-> d, raised |-> res.raised, continued |-> cont]

\* (mutant) temp_dir kept in a variable shared by the requests: the thread
\* removes the directory made last
new_timer_shared(r) ==
    [st |-> "sleeping", dir |-> Max({d \in Requests : exists[d]} \cup {r}), slept |-> 0]

\* cleanup_later threads are started with the enclosing call's temp_dir
new_timer(r) == [st |-> "sleeping", dir |-> r, slept |-> 0]

\* --------------------------------------------------------------------- Init
InitMain ==
    /\ variant \in Variants
    /\ req = [r \in Requests |-> NoReq]
    /\ pc = [r \in Requests |-> "idle"]
    /\ status = [r \in Requests |-> 0]
    /\ called = [r \in Requests |-> FALSE]
    /\ outcome = [r \in Requests |-> "none"]
    /\ exists = [r \in Requests |-> FALSE]
    /\ age = [r \in Requests |-> 0]
    /\ files = [r \in Requests |-> {}]
    /\ chosen = [r \in Requests |-> {}]
    /\ started = [r \in Requests |-> 0]
    /\ timer = [r \in Requests |-> NoTimer]
    /\ swPc = "sleeping"
    /\ swSlept = CLEANUP_INTERVAL       \* the thread's first cycle runs at once
    /\ swQueue = <<>>
    /\ swSeen = 0
    /\ swOld = {}
    /\ swYoung = FALSE
    /\ dd = NoDelete

InitFormats ==
    /\ raw = <<>>
    /\ formats = <<>>
    /\ fpc = "input"

Init == InitMain /\ InitFormats

\* ----------------------------------------------------------------- handlers
\* The handler returns with `code`.
Return(r, code) ==
    status' = [status EXCEPT ![r] = code]

\* A request arrives: validation, and for a download mkdtemp, up to the
\* blocking extract_info call (app.py 80-104, 135-189, 259-275;
\* backend/app.py 52-67, 88-133, 176-190).
request(r, ep, url) ==
    /\ pc[r] = "idle"
    /\ \A q \in Requests : q < r => pc[q] # "idle"    \* slots are taken in order
    /\ req' = [req EXCEPT ![r] = [endpoint |-> ep, url |-> url]]
    /\ IF url = <<>> \/ (checks_host(variant, ep) /\ ~valid_url(url))
       THEN /\ pc' = [pc EXCEPT ![r] = "done"]
            /\ status' = [status EXCEPT ![r] = 400]
            /\ UNCHANGED <<called, dvars>>
       ELSE /\ pc' = [pc EXCEPT ![r] = "extracting"]
            /\ called' = [called EXCEPT ![r] = TRUE]
            /\ status' = status
            /\ IF ep = "download"
               THEN /\ exists' = [exists EXCEPT ![r] = TRUE]
                    /\ age' = [age EXCEPT ![r] = 0]
                    /\ files' = files
               ELSE UNCHANGED dvars
    /\ UNCHANGED <<outcome, chosen, tvars, svars, dd, fvars, variant>>

\* extract_info returns for a metadata or format request (app.py 103-130,
\* 274-310; backend/app.py 66-84, 189-207).
extract_info_returns(r, how) ==
    /\ pc[r] = "extracting"
    /\ req[r].endpoint # "download"
    /\ outcome' = [outcome EXCEPT ![r] = how]
    /\ pc' = [pc EXCEPT ![r] = "done"]
    /\ status' = [status EXCEPT ![r] =
           IF how = "ok" THEN 200
           ELSE IF how = "DownloadError" /\ variant = "main"
                     /\ req[r].endpoint = "video-info" THEN 400
           ELSE 500]
    /\ UNCHANGED <<req, called, chosen, dvars, tvars, svars, dd, fvars, variant>>

\* extract_info(url, download=True) returns or raises (app.py 188-189,
\* backend/app.py 132-133).  A call that returns leaves the files fs in the
\* directory, if the directory is still there; writing them is the last
\* change of the directory's entries, which sets its st_mtime.  A call that
\* raises leaves the directory as it was.
download_returns(r, how, fs) ==
    /\ pc[r] = "extracting"
    /\ req[r].endpoint = "download"
    /\ outcome' = [outcome EXCEPT ![r] = how]
    /\ pc' = [pc EXCEPT ![r] = IF how = "ok" THEN "select" ELSE "except"]
    /\ IF exists[r] /\ how = "ok"
       THEN /\ files' = [files EXCEPT ![r] = fs]
            /\ age' = [age EXCEPT ![r] = IF fs # {} THEN 0 ELSE @]
            /\ swOld' = IF fs # {} THEN swOld \ {r} ELSE swOld
       ELSE /\ fs = {}
            /\ UNCHANGED <<files, age, swOld>>
    /\ UNCHANGED <<req, status, called, chosen, exists, tvars, dd, fvars, variant>>
    /\ UNCHANGED <<swPc, swSlept, swQueue, swSeen, swYoung>>

\* After the download: list the directory, pick the payload, check its size
\* (app.py 191-234; backend/app.py 135-168).  In app.py the success path
\* starts cleanup_later and goes on to send_file; in backend/app.py send_file
\* runs first and the finally clause starts cleanup_later on every path.
download_video_select(r) ==
    /\ pc[r] = "select"
    /\ IF ~exists[r]
       THEN \* os.listdir raises FileNotFoundError
            /\ chosen' = chosen
            /\ outcome' = [outcome EXCEPT ![r] = "Exception"]
            /\ IF variant = "main"
               THEN /\ pc' = [pc EXCEPT ![r] = "except"]
                    /\ UNCHANGED <<status, tvars>>
               ELSE /\ pc' = [pc EXCEPT ![r] = "done"]
                    /\ started' = [started EXCEPT ![r] = @ + 1]
                    /\ timer' = [timer EXCEPT ![r] = new_timer(r)]
                    /\ Return(r, 500)
       ELSE /\ outcome' = outcome
            /\ IF files[r] = {}
               THEN /\ pc' = [pc EXCEPT ![r] = "done"]
                    /\ chosen' = chosen
                    /\ Return(r, 500)
                    /\ IF variant = "main"
                       THEN UNCHANGED tvars
                       ELSE /\ started' = [started EXCEPT ![r] = @ + 1]
                            /\ timer' = [timer EXCEPT ![r] = new_timer(r)]
               ELSE \E f \in select_file(variant, files[r]) :
                    IF too_large(f.size)
                    THEN /\ pc' = [pc EXCEPT ![r] = "done"]
                         /\ chosen' = chosen
                         /\ Return(r, 413)
                         /\ IF variant = "main"
                            THEN UNCHANGED tvars
                            ELSE /\ started' = [started EXCEPT ![r] = @ + 1]
                                 /\ timer' = [timer EXCEPT ![r] = new_timer(r)]
                    ELSE /\ chosen' = [chosen EXCEPT ![r] = {f}]
                         /\ started' = [started EXCEPT ![r] = @ + 1]
                         /\ timer' = [timer EXCEPT ![r] = new_timer(r)]
                         /\ IF variant = "main"
                            THEN /\ pc' = [pc EXCEPT ![r] = "send"]
                                 /\ UNCHANGED status
                            ELSE /\ pc' = [pc EXCEPT ![r] = "streaming"]
                                 /\ Return(r, 200)
    /\ UNCHANGED <<req, called, dvars, svars, dd, fvars, variant>>

\* app.py 236-241: send_file opens the payload and the handler returns the
\* response; a payload that is gone raises FileNotFoundError.
download_video_send(r) ==
    /\ pc[r] = "send"
    /\ IF exists[r]
       THEN /\ pc' = [pc EXCEPT ![r] = "streaming"]
            /\ Return(r, 200)
            /\ outcome' = outcome
            /\ chosen' = chosen
       ELSE /\ pc' = [pc EXCEPT ![r] = "except"]
            /\ outcome' = [outcome EXCEPT ![r] = "Exception"]
            /\ chosen' = [chosen EXCEPT ![r] = {}]
            /\ UNCHANGED status
    /\ UNCHANGED <<req, called, dvars, tvars, svars, dd, fvars, variant>>

\* The except clauses.  app.py 243-254: `if temp_dir and os.path.exists(temp_dir)`.
\* backend/app.py 157-171: the finally clause starts cleanup_later, then the
\* outer `except Exception` answers 500.
download_video_except(r) ==
    /\ pc[r] = "except"
    /\ IF variant = "main"
       THEN IF exists[r]
            THEN /\ pc' = [pc EXCEPT ![r] = "except_rmtree"]
                 /\ UNCHANGED <<status, tvars>>
            ELSE /\ pc' = [pc EXCEPT ![r] = "done"]
                 /\ Return(r, IF outcome[r] = "DownloadError" THEN 400 ELSE 500)
                 /\ UNCHANGED tvars
       ELSE /\ pc' = [pc EXCEPT ![r] = "done"]
            /\ started' = [started EXCEPT ![r] = @ + 1]
            /\ timer' = [timer EXCEPT ![r] = new_timer(r)]
            /\ Return(r, 500)
    /\ UNCHANGED <<req, called, outcome, chosen, dvars, svars, dd, fvars, variant>>

\* app.py 247, 253: shutil.rmtree(temp_dir, ignore_errors=True), then the answer
download_video_except_rmtree(r) ==
    /\ pc[r] = "except_rmtree"
    /\ pc' = [pc EXCEPT ![r] = "done"]
    /\ Return(r, IF outcome[r] = "DownloadError" THEN 400 ELSE 500)
    /\ LET res == rmtree(exists[r]) IN
       /\ dd' = Logged("inline", r, res, ~res.raised)
       /\ IF res.left THEN UNCHANGED dvars ELSE Removed(r)
    /\ UNCHANGED <<req, called, outcome, chosen, tvars, svars, fvars, variant>>

\* the response body has been read to the end
stream_done(r) ==
    /\ pc[r] = "streaming"
    /\ pc' = [pc EXCEPT ![r] = "done"]
    /\ chosen' = [chosen EXCEPT ![r] = {}]
    /\ UNCHANGED <<req, status, called, outcome, dvars, tvars, svars, dd, fvars, variant>>

\* ------------------------------------------------------------ cleanup_later
\* app.py 225-231, backend/app.py 159-165: after the sleep, rmtree the
\* directory the thread was started with.
cleanup_later(r) ==
    /\ timer_due(timer[r])
    /\ LET d == timer[r].dir
           res == rmtree(exists[d]) IN
       /\ dd' = Logged("timer", d, res, ~res.raised)
       /\ IF res.left THEN UNCHANGED dvars ELSE Removed(d)
    /\ timer' = [timer EXCEPT ![r].st = "done"]
    /\ UNCHANGED <<hvars, started, svars, fvars, variant>>

\* -------------------------------------------------------- cleanup_old_files
\* The cycle is over (normally, or by the except clause): time.sleep.
EndCycle ==
    /\ swPc' = "sleeping"
    /\ swSlept' = 0
    /\ swQueue' = <<>>
    /\ swSeen' = 0
    /\ swOld' = {d \in swOld : exists'[d]}

\* go on with the entries after the head
NextEntry ==
    /\ swPc' = "loop"
    /\ swQueue' = Tail(swQueue)
    /\ swSeen' = 0
    /\ UNCHANGED <<swSlept, swOld>>

\* app.py 23-27, backend/app.py 21-24: the sleep is over; current_time is
\* read and temp_dir.glob("yt_download_*") lists the entries, in any order.
cleanup_old_files_glob ==
    /\ sweeper_due
    /\ \E q \in Perms({d \in Requests : exists[d]}) : swQueue' = q
    /\ swPc' = "loop"
    /\ swOld' = {d \in Requests : exists[d] /\ age[d] > MAX_AGE}
    /\ UNCHANGED <<swSlept, swSeen, swYoung, hvars, dvars, tvars, dd, fvars, variant>>

\* The loop takes its next entry.  app.py 28: dir_path.is_dir(), False for an
\* entry that is gone.  backend/app.py 25 has no such test.
cleanup_old_files_next ==
    /\ swPc = "loop"
    /\ swQueue # <<>>
    /\ IF variant = "main" /\ ~exists[Head(swQueue)]
       THEN NextEntry
       ELSE /\ swPc' = "stat"
            /\ UNCHANGED <<swSlept, swQueue, swSeen, swOld>>
    /\ UNCHANGED <<swYoung, hvars, dvars, tvars, dd, fvars, variant>>

\* app.py 28, backend/app.py 25: current_time - path.stat().st_mtime > 3600;
\* stat raises FileNotFoundError for an entry that is gone, which ends the
\* cycle in the except clause (app.py 36-37, backend/app.py 27-28).
cleanup_old_files_stat ==
    /\ swPc = "stat"
    /\ UNCHANGED <<swYoung, hvars, dvars, tvars, dd, fvars, variant>>
    /\ IF ~exists[Head(swQueue)] THEN EndCycle
       ELSE IF is_old(age[Head(swQueue)])
            THEN /\ swPc' = "delete"
                 /\ swSeen' = age[Head(swQueue)]
                 /\ UNCHANGED <<swSlept, swQueue, swOld>>
            ELSE NextEntry

\* app.py 29: shutil.rmtree(dir_path, ignore_errors=True);
\* backend/app.py 26: file_path.unlink(missing_ok=True), which raises for a
\* directory and so ends the cycle.
cleanup_old_files_delete ==
    /\ swPc = "delete"
    /\ LET d == Head(swQueue)
           res == sweeper_delete(variant, exists[d]) IN
       /\ IF res.left THEN UNCHANGED dvars ELSE Removed(d)
       /\ swYoung' = (swYoung \/ (exists[d] /\ ~res.left /\ swSeen <= MAX_AGE))
       /\ IF res.raised THEN EndCycle ELSE NextEntry
       /\ dd' = Logged("sweeper", d, res, swPc' = "loop" /\ swQueue' = Tail(swQueue))
    /\ UNCHANGED <<hvars, tvars, fvars, variant>>

\* app.py 39, backend/app.py 29: no entry is left; sleep.  (The loop of
\* app.py 32-34 over loose tmp* files touches no download directory.)
cleanup_old_files_sleep ==
    /\ swPc = "loop"
    /\ swQueue = <<>>
    /\ UNCHANGED <<swYoung, hvars, dvars, tvars, dd, fvars, variant>>
    /\ EndCycle

\* --------------------------------------------------------------------- time
\* Every thread is blocked: in a sleep, in extract_info, or streaming.
AllBlocked ==
    /\ \A r \in Requests : pc[r] \in {"idle", "extracting", "streaming", "done"}
    /\ \A r \in Requests : ~timer_due(timer[r])
    /\ swPc = "sleeping" /\ ~sweeper_due

\* a clock is read only against its deadline: past it, it stands still
UpTo(t, deadline) == IF t > deadline THEN deadline ELSE t

Tick ==
    /\ AllBlocked
    /\ age' = [d \in Requests |->
                 IF exists[d] /\ age[d] <= MAX_AGE THEN age[d] + Quantum ELSE age[d]]
    /\ timer' = [r \in Requests |->
                 IF timer[r].st = "sleeping"
                 THEN [timer[r] EXCEPT !.slept = UpTo(@ + Quantum, TIMER_DELAY)]
                 ELSE timer[r]]
    /\ swSlept' = UpTo(swSlept + Quantum, CLEANUP_INTERVAL)
    /\ UNCHANGED <<hvars, exists, files, started, swPc, swQueue, swSeen, swOld, swYoung, dd, fvars, variant>>

\* --------------------------------------------------------------------- Next
Outcomes == {"ok", "DownloadError", "Exception"}

Next ==
    \/ \E r \in Requests, url \in DownloadURLS : request(r, "download", url)
    \/ \E r \in Requests, how \in Outcomes, fs \in FileSets :
           download_returns(r, how, fs)
    \/ \E r \in Requests : download_video_select(r)
    \/ \E r \in Requests : download_video_send(r)
    \/ \E r \in Requests : download_video_except(r)
    \/ \E r \in Requests : download_video_except_rmtree(r)
    \/ \E r \in Requests : stream_done(r)
    \/ \E r \in Requests : cleanup_later(r)
    \/ cleanup_old_files_glob
    \/ cleanup_old_files_next
    \/ cleanup_old_files_stat
    \/ cleanup_old_files_delete
    \/ cleanup_old_files_sleep
    \/ Tick

Spec == Init /\ [][Next]_vars

\* The threads are scheduled fairly, extract_info calls end, time passes.
Fairness ==
    /\ \A r \in Requests :
         /\ WF_vars(\E how \in Outcomes, fs \in FileSets : download_returns(r, how, fs))
         /\ WF_vars(download_video_select(r))
         /\ WF_vars(download_video_send(r))
         /\ WF_vars(download_video_except(r))
         /\ WF_vars(download_video_except_rmtree(r))
         /\ WF_vars(cleanup_later(r))
    /\ WF_vars(cleanup_old_files_glob)
    /\ WF_vars(cleanup_old_files_next)
    /\ WF_vars(cleanup_old_files_stat)
    /\ WF_vars(cleanup_old_files_delete)
    /\ WF_vars(cleanup_old_files_sleep)
    /\ WF_vars(Tick)

FairSpec == Init /\ [][Next]_vars /\ Fairness

\* The request handlers alone, over every endpoint and URL.
NextApi ==
    \/ \E r \in Requests, ep \in Endpoints, url \in URLS : request(r, ep, url)
    \/ \E r \in Requests, how \in Outcomes : extract_info_returns(r, how)
    \/ \E r \in Requests, how \in Outcomes, fs \in FileSets :
           download_returns(r, how, fs)
    \/ \E r \in Requests : download_video_select(r)
    \/ \E r \in Requests : download_video_send(r)
    \/ \E r \in Requests : download_video_except(r)
    \/ \E r \in Requests : download_video_except_rmtree(r)
    \/ \E r \in Requests : stream_done(r)

SpecApi == Init /\ [][NextApi]_vars

\* ------------------------------------------------------------- get_formats
\* A raw format of the collaborator's info['formats']: the fields the two
\* get_formats read to select and order (format_id, ext, height, vcodec,
\* acodec).  resolution, filesize and fps are copied through and left out.
Fmt(id, e, h, vc, ac) ==
    [format_id |-> id, ext |-> e, height |-> h, vcodec |-> vc, acodec |-> ac]

\* The formats a raw list is freely built from: two of the same
\* (height, ext, kind), one of the same height and another ext, an audio
\* track, a storyboard (no codec at all), and a video without a height.
FreeFormats ==
    { Fmt(18, "mp4", 720, "avc1", "mp4a"),
      Fmt(22, "mp4", 720, "vp9", "none"),
      Fmt(247, "webm", 720, "vp9", "none"),
      Fmt(248, "webm", 1080, "vp9", "none"),
      Fmt(140, "m4a", None, "none", "mp4a"),
      Fmt(0, "mhtml", None, "none", "none"),
      Fmt(96, "mp4", None, "avc1", "mp4a") }

\* PadLen video formats of pairwise different heights, below every height of
\* FreeFormats
Padding == [i \in 1 .. PadLen |-> Fmt(1000 + i, "mp4", 100 + i, "avc1", "none")]

Range(s) == {s[i] : i \in 1 .. Len(s)}

\* app.py 285, 301: 'video' if fmt.get('vcodec') != 'none' else 'audio'
type_of(fmt) == IF fmt.vcodec # "none" THEN "video" ELSE "audio"

\* app.py 282-286
format_key(fmt) == <<fmt.height, fmt.ext, type_of(fmt)>>

\* app.py 277-302: the loop over the raw formats from the i-th on, with the
\* set seen_formats of the keys met so far; a format is appended unless its
\* key is in the set
RECURSIVE unseen(_, _, _)
unseen(raw_list, i, seen_formats) ==
    IF i > Len(raw_list) THEN <<>>
    ELSE IF format_key(raw_list[i]) \in seen_formats
         THEN unseen(raw_list, i + 1, seen_formats)
         ELSE <<raw_list[i]>> \o
              unseen(raw_list, i + 1, seen_formats \cup {format_key(raw_list[i])})

\* the formats appended, starting from formats = [] and seen_formats = set()
deduplicated(raw_list) == unseen(raw_list, 1, {})

\* app.py 305: key=lambda x: (x['type'] == 'audio', -(x['height'] or 0));
\* tuples compare lexicographically, False before True
sort_key(fmt) ==
    <<IF type_of(fmt) = "audio" THEN 1 ELSE 0,
      0 - (IF fmt.height = None THEN 0 ELSE fmt.height)>>

key_less(a, b) == a[1] < b[1] \/ (a[1] = b[1] /\ a[2] < b[2])

\* (mutant) no sort
sort_formats_none(s) == s

\* list.sort is stable: an entry goes behind those of a smaller key and those
\* of an equal key that stood before it
RECURSIVE insert(_, _)
insert(x, s) ==
    IF s = <<>> THEN <<x>>
    ELSE IF key_less(sort_key(x), sort_key(Head(s)))
         THEN <<x>> \o s
         ELSE <<Head(s)>> \o insert(x, Tail(s))

RECURSIVE sorted(_, _)
sorted(s, n) == IF n = 0 THEN <<>> ELSE insert(s[n], sorted(s, n - 1))

sort_formats(s) == sorted(s, Len(s))

\* formats[:20]
first(s, n) == SubSeq(s, 1, IF Len(s) < n THEN Len(s) ELSE n)

\* backend/app.py 193: if fmt.get('vcodec') != 'none' or fmt.get('acodec') != 'none'
has_codec(fmt) == fmt.vcodec # "none" \/ fmt.acodec # "none"

\* the entry of the response built from a raw format: app.py 288-299 and
\* backend/app.py 194-201 (which copies neither height nor type)
entry(v, fmt) ==
    IF v = "main"
    THEN [format_id |-> fmt.format_id, ext |-> fmt.ext, height |-> fmt.height,
          vcodec |-> fmt.vcodec, acodec |-> fmt.acodec, type |-> type_of(fmt)]
    ELSE [format_id |-> fmt.format_id, ext |-> fmt.ext,
          vcodec |-> fmt.vcodec, acodec |-> fmt.acodec]

\* the raw formats the response lists, in the response's order
listed(v, raw_list) ==
    IF v = "main"
    THEN first(sort_formats(deduplicated(raw_list)), LIMIT)
    ELSE SelectSeq(raw_list, has_codec)

\* the "formats" of the response
get_formats(v, raw_list) ==
    LET chosen_formats == listed(v, raw_list)
    IN  [k \in 1 .. Len(chosen_formats) |-> entry(v, chosen_formats[k])]

\* the collaborator's list grows by one format
append_format(fmt) ==
    /\ fpc = "input"
    /\ fmt \notin Range(raw)
    /\ Cardinality(Range(raw) \cap FreeFormats) < MaxFree
    /\ raw' = Append(raw, fmt)
    /\ UNCHANGED <<formats, fpc, hvars, dvars, tvars, svars, dd, variant>>

\* the collaborator's list grows by the block of padding formats
append_padding ==
    /\ fpc = "input"
    /\ Range(raw) \cap Range(Padding) = {}
    /\ raw' = raw \o Padding
    /\ UNCHANGED <<formats, fpc, hvars, dvars, tvars, svars, dd, variant>>

\* extract_info has returned `raw` and the handler answers
get_formats_returns ==
    /\ fpc = "input"
    /\ formats' = get_formats(variant, raw)
    /\ fpc' = "done"
    /\ UNCHANGED <<raw, hvars, dvars, tvars, svars, dd, variant>>

NextFormats ==
    \/ \E fmt \in FreeFormats : append_format(fmt)
    \/ append_padding
    \/ get_formats_returns

SpecFormats == Init /\ [][NextFormats]_vars

\* the lists obtained from s by exchanging two neighbouring entries; such
\* exchanges generate every permutation of s
Exchanges(s) ==
    { [k \in 1 .. Len(s) |-> IF k = i THEN s[i + 1] ELSE IF k = i + 1 THEN s[i] ELSE s[k]] :
        i \in 1 .. Len(s) - 1 }

\* the raw format an entry of the response was built from (format_id is
\* unique in a raw list)
raw_of(e) == CHOOSE fmt \in Range(raw) : fmt.format_id = e.format_id

\* the position of a raw format in the collaborator's list
index_of(fmt) == CHOOSE i \in 1 .. Len(raw) : raw[i] = fmt

\* =================================================================== claims

\* C1: every download directory a request has created is eventually deleted,
\* however the request ends (checked under FairSpec).
C1_EventuallyDeleted == \A r \in Requests : exists[r] ~> ~exists[r]

\* a directory left behind by app.py's 413 answer has been removed
C1_Witness ==
    \E r \in Requests :
        variant = "main" /\ pc[r] = "done" /\ status[r] = 413 /\ ~exists[r]

\* C2: a download answered 413 (the chosen file is larger than MAX_FILE_SIZE)
\* has had its directory deleted by the handler when the handler returns.
C2_TooLargeDeletedByHandler ==
    \A r \in Requests : (pc[r] = "done" /\ status[r] = 413) => ~exists[r]

\* C3: a request whose URL holds neither host is answered 400 on each of the
\* three endpoints, and extract_info is never invoked for it (SpecApi).
C3_InvalidUrlRejected ==
    \A r \in Requests :
        (req[r].endpoint \in Endpoints /\ ~valid_url(req[r].url)) =>
            /\ ~called[r]
            /\ pc[r] = "done" => status[r] = 400

\* C4: on the success path the file sent is one of the largest files of the
\* directory.
C4_LargestFileSent ==
    \A r \in Requests :
        (pc[r] \in {"send", "streaming"} /\ exists[r]) =>
            \A f \in chosen[r] :
                f \in files[r] /\ \A g \in files[r] : g.size <= f.size

\* C5: when extract_info fails with DownloadError in a download, the
\* directory is gone when the handler returns, and the answer is 400.
C5_ExtractionFailure ==
    \A r \in Requests :
        (pc[r] = "done" /\ outcome[r] = "DownloadError") =>
            status[r] = 400 /\ ~exists[r]

\* C6: a successful download has started exactly one cleanup_later thread,
\* bound to its own directory; the thread deletes the directory once it has
\* slept TIMER_DELAY seconds and not before, and no time passes beyond the
\* delay with the directory still on disk.
C6_TimerPerSuccess ==
    \A r \in Requests :
        status[r] = 200 =>
            /\ started[r] = 1
            /\ timer[r].st \in {"sleeping", "done"}
            /\ timer[r].dir = r
            /\ timer[r].st = "done" => (timer[r].slept >= TIMER_DELAY /\ ~exists[r])
            /\ (timer[r].slept >= TIMER_DELAY /\ AllBlocked) => ~exists[r]

\* the timer of a successful download has removed its directory while the
\* directory of another request is on disk
C6_Witness ==
    \E r, q \in Requests :
        /\ r # q /\ exists[q]
        /\ status[r] = 200 /\ timer[r].st = "done" /\ ~exists[r]

\* C7: when a sweep cycle has ended none of the directories that were older
\* than MAX_AGE at its glob (and not modified since) is on disk, and the
\* sweeper has never removed a directory it found no older than MAX_AGE.
C7_SweepRemovesOldOnly ==
    /\ swPc = "sleeping" => swOld = {}
    /\ ~swYoung

\* C8: a deletion attempted on an already removed directory, by the sweeper,
\* a cleanup_later thread or the failure path of the handler, raises nothing,
\* leaves the directory absent, and the task goes on (the sweeper with the
\* rest of its entries).
C8_DoubleDeleteNoop ==
    dd.task # "none" => (~dd.raised /\ dd.continued /\ ~exists[dd.dir])

\* the sweeper has deleted a directory another task had just removed, and
\* has an entry left to visit
C8_Witness == dd.task = "sweeper" /\ swPc = "loop" /\ swQueue # <<>>

\* the same with the tasks in the other order
C8_WitnessTimer == dd.task = "timer"
C8_WitnessInline == dd.task = "inline"

\* a missing height counts as 0 (app.py 305: x['height'] or 0)
height_or_0(fmt) == IF fmt.height = None THEN 0 ELSE fmt.height

\* C9: the listing answered for a raw format list has at most LIMIT entries,
\* no two of them with the same (height, ext, kind), each built from the first
\* raw format of its (height, ext, kind), no audio entry before a video entry,
\* and the video entries in order of non-increasing height.
C9_FormatListing ==
    fpc = "done" =>
        LET src == [k \in 1 .. Len(formats) |-> raw_of(formats[k])]
            pairs == {p \in (1 .. Len(formats)) \X (1 .. Len(formats)) : p[1] < p[2]}
        IN  /\ Len(formats) <= LIMIT
            /\ \A p \in pairs : format_key(src[p[1]]) # format_key(src[p[2]])
            /\ \A k \in 1 .. Len(formats) : \A j \in 1 .. index_of(src[k]) - 1 :
                    format_key(raw[j]) # format_key(src[k])
            /\ \A p \in pairs :
                    ~(type_of(src[p[1]]) = "audio" /\ type_of(src[p[2]]) = "video")
            /\ \A p \in pairs :
                    (type_of(src[p[1]]) = "video" /\ type_of(src[p[2]]) = "video")
                        => height_or_0(src[p[1]]) >= height_or_0(src[p[2]])

\* C10 as stated: the listing answered for a raw format list is the listing
\* of every list obtained from it by exchanging two neighbouring entries.
C10_PermutationInvariant ==
    fpc = "done" => \A p \in Exchanges(raw) : get_formats(variant, p) = formats

\* what the sort of app.py 305 orders an entry of the response by
entry_sort_key(e) == <<e.type, IF e.height = None THEN 0 ELSE e.height>>

\* the (height, ext, kind) tuples of a response of app.py
entry_keys(s) == {<<s[k].height, s[k].ext, s[k].type>> : k \in 1 .. Len(s)}

\* C10 amended: in app.py the listing of every list obtained from the raw
\* list by exchanging two neighbouring entries has the same length and the same kind and
\* height (a missing height as 0) at every position, and the same set of
\* (height, ext, kind) tuples when the raw list has no more than LIMIT of them.
C10_SortKeysInvariant ==
    (fpc = "done" /\ variant = "main") =>
        \A p \in Exchanges(raw) :
            LET other == get_formats(variant, p)
            IN  /\ Len(other) = Len(formats)
                /\ \A k \in 1 .. Len(formats) :
                        entry_sort_key(other[k]) = entry_sort_key(formats[k])
                /\ Len(deduplicated(raw)) <= LIMIT => entry_keys(other) = entry_keys(formats)

\* C10 witness: app.py has answered a list of more than LIMIT distinct tuples,
\* and exchanging two neighbouring entries of it changes the answer.
C10_Witness ==
    /\ fpc = "done"
    /\ variant = "main"
    /\ Len(deduplicated(raw)) > LIMIT
    /\ \E p \in Exchanges(raw) : get_formats(variant, p) # formats

\* C11: while the response of a successful download is being streamed, the
\* request's download directory (and with it the file that is sent) is on
\* disk: neither cleanup_later nor the sweeper has removed it.
C11_PresentWhileStreaming ==
    \A r \in Requests : pc[r] = "streaming" => exists[r]

====
